---- MODULE Spec2Model ----
\* Verification model of the crawl engine (scripts/crawler.js, second revision
\* in src/unnamed/part_006, lines 360-757): URL normalisation, the shared
\* frontier, the worker loop processQueue, the request handler, the SIGINT
\* handler and the assembly of the result.
EXTENDS Integers, Sequences, FiniteSets, TLC

\* ------------------------------------------------------------------ bounds
MaxConcurrency == 2
MaxPagesBound == 3
MaxDepthBound == 2
MaxRetriesBound == 1
MaxAnchors == 2

\* ------------------------------------------------------------------- URLs
\* A URL string is represented by what "new URL(string)" parses it to:
\* scheme, host (with port), path segments after each "/", query pairs in
\* order, and fragment.  "/" is <<"">>, "/a" is <<"a">>, "/a/" is <<"a","">>.
\* A string that does not parse has scheme "".
MkUrl(scheme, host, path, query, hash) ==
    [scheme |-> scheme, host |-> host, path |-> path, query |-> query, hash |-> hash]

Parses(u) == u.scheme # "" /\ u.host # ""

Origin(u) == <<u.scheme, u.host>>

trackingParams ==
    {"utm_source", "utm_medium", "utm_campaign", "utm_term", "utm_content",
     "ref", "fbclid", "gclid"}

\* Code-unit order of the parameter names used in the model.
KeyAlphabet == <<"fbclid", "p", "q", "ref", "utm_source">>

KeyRank(k) == CHOOSE i \in 1..Len(KeyAlphabet) : KeyAlphabet[i] = k

\* url.searchParams.delete(param) for every tracking parameter
RECURSIVE DeleteTracking(_)
DeleteTracking(q) ==
    IF q = <<>> THEN <<>>
    ELSE IF Head(q)[1] \in trackingParams THEN DeleteTracking(Tail(q))
         ELSE <<Head(q)>> \o DeleteTracking(Tail(q))

\* insert pair p into the sorted sequence s after every pair whose key is
\* not greater (the sort is stable)
RECURSIVE InsertByKey(_, _)
InsertByKey(p, s) ==
    IF s = <<>> THEN <<p>>
    ELSE IF KeyRank(Head(s)[1]) <= KeyRank(p[1])
         THEN <<Head(s)>> \o InsertByKey(p, Tail(s))
         ELSE <<p>> \o s

\* url.searchParams.sort()
RECURSIVE SortParams(_)
SortParams(q) ==
    IF q = <<>> THEN <<>>
    ELSE InsertByKey(q[Len(q)], SortParams(SubSeq(q, 1, Len(q) - 1)))

\* pathname.slice(0, -1) when the pathname is longer than "/" and ends in "/"
StripTrailingSlash(path) ==
    IF Len(path) > 1 /\ path[Len(path)] = ""
    THEN SubSeq(path, 1, Len(path) - 1)
    ELSE path

\* mutant of normalizeUrl: the empty string when the input does not parse
normalizeUrlEmptyOnError(u) ==
    IF ~Parses(u) THEN MkUrl("", "", <<>>, <<>>, "")
    ELSE [u EXCEPT !.path = StripTrailingSlash(u.path),
                   !.query = SortParams(DeleteTracking(u.query)),
                   !.hash = ""]

normalizeUrl(u) ==
    IF ~Parses(u) THEN u
    ELSE [u EXCEPT !.path = StripTrailingSlash(u.path),
                   !.query = SortParams(DeleteTracking(u.query)),
                   !.hash = ""]

\* ---------------------------------------------------------- the test site
BaseHost == "x.test"
OtherHost == "other.test"

Page(path) == MkUrl("https", BaseHost, path, <<>>, "")

baseUrl == MkUrl("https", BaseHost, <<"">>, <<>>, "")
UrlA == Page(<<"a">>)
UrlB == Page(<<"b">>)
UrlC == Page(<<"c">>)
UrlD == Page(<<"d">>)
UrlASlash == Page(<<"a", "">>)
UrlATracked == MkUrl("https", BaseHost, <<"a">>, <<<<"utm_source", "y">>>>, "")
UrlExternal == MkUrl("https", OtherHost, <<"new">>, <<>>, "")
UrlPdf == Page(<<"f.pdf">>)
UrlMailto == MkUrl("mailto", "", <<"me">>, <<>>, "")

baseOrigin == Origin(baseUrl)

\* hrefs that the anchors of a rendered page may resolve to
Hrefs == {UrlA, UrlASlash, UrlB, UrlExternal, UrlPdf}

\* same-origin URLs an intermediate redirect hop may pass through
HopUrls == {UrlB}

\* ------------------------------------------------------------------ state
VARIABLES
    config,             \* getCommonConfig(...) as read by crawlSite
    phase,              \* where crawlSite is
    toVisit,            \* the frontier array (append only)
    queueIndex,         \* number of frontier entries already claimed
    pending, visited, failed,
    crawlStats,
    redirectedExternal, \* the Map, as the set of its values (keyed by from)
    activeWorkers,
    shuttingDown,
    pc,                 \* per worker: the await it is suspended at
    cur,                \* per worker: index in toVisit of "current", 0 if none
    currentPageUrl,     \* per worker page
    aborted,            \* per worker: the request handler aborted the navigation
    gotoCalls,          \* history: workerPage.goto calls per URL
    gotoFails,          \* history: per URL, attempts that ended in the catch block
    hookCalls,          \* history: pagesScanned++ / onPageVisit per URL
    result,             \* the value crawlSite returns
    intercepted,        \* history: the last run of the request listener
    normalized,         \* history: the last call of normalizeUrl under test
    process,            \* process.argv and process.env of the script
    consoleMessage      \* history: the last call of options.onConsoleMessage

vars == <<config, intercepted, normalized, process, consoleMessage, phase, toVisit, queueIndex, pending, visited, failed,
          crawlStats, redirectedExternal, activeWorkers, shuttingDown, pc, cur,
          currentPageUrl, aborted, gotoCalls, gotoFails, hookCalls, result>>

\* the empty string, which does not parse as a URL
NoUrl == MkUrl("", "", <<>>, <<>>, "")
NoResult == [returned |-> FALSE]
NoRequest == [seen |-> FALSE]
NoCall == [called |-> FALSE]
NoProcess == [started |-> FALSE]

Workers == 1..config.concurrency

\* every normalized URL the frontier can hold in this model
CrawlUrls ==
    {normalizeUrl(baseUrl)}
    \cup {normalizeUrl(h) : h \in {UrlA, UrlASlash, UrlB, UrlC, UrlD} \cup HopUrls}

Entry(url, depth, retries) == [url |-> url, depth |-> depth, retries |-> retries]

\* The configurations explored.  Both scripts of the repository pass an
\* onPageVisit hook.  Retries are explored below the largest page and depth
\* budgets.
Explored(c) ==
    \/ c.maxRetries = 0
    \/ c.maxPages < MaxPagesBound /\ c.maxDepth < MaxDepthBound

Configs ==
    {c \in [maxPages : 1..MaxPagesBound,
            maxLinksPerPage : 1..MaxAnchors,
            maxDepth : 0..MaxDepthBound,
            concurrency : 1..MaxConcurrency,
            maxRetries : 0..MaxRetriesBound,
            delay : {0, 1},
            onPageVisit : {TRUE}] : Explored(c)}

Init ==
    /\ config \in Configs
    /\ phase = "setup"
    /\ toVisit = <<Entry(normalizeUrl(baseUrl), 0, 0)>>
    /\ queueIndex = 0
    /\ pending = {normalizeUrl(baseUrl)}
    /\ visited = {}
    /\ failed = {}
    /\ crawlStats = [pagesScanned |-> 0, linksFound |-> 0, newLinksFound |-> 0,
                     linksTruncated |-> 0, redirectsExternal |-> 0, errors |-> <<>>]
    /\ redirectedExternal = {}
    /\ activeWorkers = 0
    /\ shuttingDown = FALSE
    /\ pc = [w \in Workers |-> "unstarted"]
    /\ cur = [w \in Workers |-> 0]
    /\ currentPageUrl = [w \in Workers |-> NoUrl]
    /\ aborted = [w \in Workers |-> FALSE]
    /\ gotoCalls = [u \in CrawlUrls |-> 0]
    /\ gotoFails = [u \in CrawlUrls |-> 0]
    /\ hookCalls = [u \in CrawlUrls |-> 0]
    /\ result = NoResult
    /\ intercepted = NoRequest
    /\ consoleMessage = NoCall
    /\ normalized = NoCall
    /\ process = NoProcess

\* ------------------------------------------------------- the worker loop
\* The synchronous run of processQueue from the top of its while loop to its
\* next await or return: budget and shutdown check, empty-queue check, claim,
\* pending.delete and the three "continue" paths, none of which yields.
\* qi, pend, aw are queueIndex, pending, activeWorkers as the run finds them.
\* mutant of Unpend: the claim leaves the URL in pending
UnpendNothing(pend, url) == pend

\* pending.delete(currentUrl), line 555
Unpend(pend, url) == pend \ {url}

\* mutant of Discarded: the depth check is missing
DiscardedNoDepth(current, vis, fl) ==
    \/ current.url \in vis
    \/ current.url \in fl

\* the three "continue" conditions of lines 557-565: already visited, already
\* failed, or deeper than maxDepth
Discarded(current, vis, fl) ==
    \/ current.url \in vis
    \/ current.url \in fl
    \/ current.depth > config.maxDepth

\* mutant of Stopping: the page budget is not checked at the loop top
StoppingNoBudget(vis) == shuttingDown

\* mutant of Stopping: the shutdown flag is not checked at the loop top
StoppingNoSignal(vis) == Cardinality(vis) >= config.maxPages

\* the exit condition at the top of the loop, line 540
Stopping(vis) == shuttingDown \/ Cardinality(vis) >= config.maxPages

\* mutant of Drained: an idle worker polls for ever
DrainedNever(aw) == FALSE

\* "if (activeWorkers === 0) return", line 543
Drained(aw) == aw = 0

RECURSIVE LoopTop(_, _, _, _, _, _)
LoopTop(qi, pend, aw, tv, vis, fl) ==
    IF Stopping(vis)
    THEN [pc |-> "exited", qi |-> qi, pend |-> pend, aw |-> aw, cur |-> 0]
    ELSE IF qi >= Len(tv)
    THEN [pc |-> IF Drained(aw) THEN "exited" ELSE "sleep",
          qi |-> qi, pend |-> pend, aw |-> aw, cur |-> 0]
    ELSE LET current == tv[qi + 1]
             pend2 == Unpend(pend, current.url)
         IN  IF Discarded(current, vis, fl)
             THEN LoopTop(qi + 1, pend2, aw, tv, vis, fl)
             ELSE IF Cardinality(vis) >= config.maxPages
             THEN [pc |-> "exited", qi |-> qi + 1, pend |-> pend2, aw |-> aw, cur |-> 0]
             ELSE [pc |-> "goto", qi |-> qi + 1, pend |-> pend2, aw |-> aw + 1,
                   cur |-> qi + 1]

\* The per-worker and claim-related state, gathered so that the synchronous
\* part of a handler can be composed with the loop top that follows it.
Shared ==
    [qi |-> queueIndex, pend |-> pending, aw |-> activeWorkers, pc |-> pc,
     cur |-> cur, cpu |-> currentPageUrl, ab |-> aborted, gc |-> gotoCalls]

\* mutant of setCurrentUrl: one currentPageUrl is shared by all pages
setCurrentUrlShared(cpu, w, url) == [v \in DOMAIN cpu |-> url]

\* workerPage._setCurrentUrl(url), lines 534 and 570: the variable of
\* worker w's page
setCurrentUrl(cpu, w, url) == [cpu EXCEPT ![w] = url]

\* Worker w runs from the loop top (lines 539-575): on a claim that reaches
\* the fetch, activeWorkers++, _setCurrentUrl(currentUrl) and page.goto.
Enter(w, q, tv, vis, fl) ==
    LET r == LoopTop(q.qi, q.pend, q.aw, tv, vis, fl)
        fetch == r.pc = "goto"
    IN  [qi |-> r.qi, pend |-> r.pend, aw |-> r.aw,
         pc |-> [q.pc EXCEPT ![w] = r.pc],
         cur |-> [q.cur EXCEPT ![w] = r.cur],
         cpu |-> IF fetch THEN setCurrentUrl(q.cpu, w, tv[r.cur].url) ELSE q.cpu,
         ab |-> IF fetch THEN [q.ab EXCEPT ![w] = FALSE] ELSE q.ab,
         gc |-> IF fetch THEN [q.gc EXCEPT ![tv[r.cur].url] = @ + 1] ELSE q.gc]

\* mutant of Finally: the count is not decremented
FinallyKeepsCount(q) == q

\* "finally { activeWorkers-- }"
Finally(q) == [q EXCEPT !.aw = @ - 1]

\* Lines 692-696: the pacing wait, an await only when config.delay > 0;
\* otherwise the loop top follows in the same run.
Pace(w, q, tv, vis, fl) ==
    IF config.delay > 0
    THEN [q EXCEPT !.pc[w] = "delay", !.cur[w] = 0]
    ELSE Enter(w, [q EXCEPT !.cur[w] = 0], tv, vis, fl)

\* "continue" inside the try block: finally, then straight to the loop top
Continue(w, q, tv, vis, fl) ==
    Enter(w, [Finally(q) EXCEPT !.cur[w] = 0], tv, vis, fl)

Commit(q) ==
    /\ queueIndex' = q.qi
    /\ pending' = q.pend
    /\ activeWorkers' = q.aw
    /\ pc' = q.pc
    /\ cur' = q.cur
    /\ currentPageUrl' = q.cpu
    /\ aborted' = q.ab
    /\ gotoCalls' = q.gc

\* crawlSite line 700: processQueue is called for each worker page in turn,
\* each call running to its first await before the next one starts.
RECURSIVE StartFrom(_, _)
StartFrom(w, q) ==
    IF w > config.concurrency THEN q
    ELSE StartFrom(w + 1, Enter(w, q, toVisit, visited, failed))

StartWorkers ==
    /\ phase = "setup"
    /\ phase' = "running"
    /\ Commit(StartFrom(1, Shared))
    /\ UNCHANGED <<config, consoleMessage, intercepted, normalized, process, toVisit, visited, failed, crawlStats,
                   redirectedExternal, shuttingDown, gotoFails, hookCalls, result>>

\* the 100 ms poll of an idle worker (line 545) has elapsed
IdleWake(w) ==
    /\ phase = "running" /\ pc[w] = "sleep"
    /\ Commit(Enter(w, Shared, toVisit, visited, failed))
    /\ UNCHANGED <<config, consoleMessage, intercepted, normalized, process, phase, toVisit, visited, failed, crawlStats,
                   redirectedExternal, shuttingDown, gotoFails, hookCalls, result>>

\* the pacing delay (line 694) has elapsed
DelayDone(w) ==
    /\ phase = "running" /\ pc[w] = "delay"
    /\ Commit(Enter(w, Shared, toVisit, visited, failed))
    /\ UNCHANGED <<config, consoleMessage, intercepted, normalized, process, phase, toVisit, visited, failed, crawlStats,
                   redirectedExternal, shuttingDown, gotoFails, hookCalls, result>>

\* mutant of HasRedirect: a recorded redirect is not recognised
HasRedirectNever(red, u) == FALSE

\* redirectedExternal.has(u)
HasRedirect(red, u) == \E r \in red : r.from = u

RedirectRecord(from, to, chain) ==
    [from |-> from, to |-> to, chain |-> chain,
     reason |-> "redirected-to-external-origin"]

\* mutant of retryEntry: the retry is queued one level deeper
retryEntryDeeper(current) ==
    Entry(current.url, current.depth + 1, current.retries + 1)

\* { url: currentUrl, depth: currentDepth, retries: retries + 1 }, line 680
retryEntry(current) == Entry(current.url, current.depth, current.retries + 1)

\* mutant of failedAdd: every URL in flight is marked failed
failedAddInFlight(fl, url) ==
    fl \cup {toVisit[cur[v]].url : v \in {x \in Workers : cur[x] # 0}}

\* failed.add(currentUrl), line 684
failedAdd(fl, url) == fl \cup {url}

\* The catch block, lines 672-690, then the pacing wait.
Catch(w, message) ==
    LET current == toVisit[cur[w]]
        currentUrl == current.url
    IN  /\ gotoFails' = [gotoFails EXCEPT ![currentUrl] = @ + 1]
        /\ IF HasRedirect(redirectedExternal, currentUrl)
           THEN /\ visited' = visited \cup {currentUrl}
                /\ Commit(Continue(w, Shared, toVisit, visited', failed))
                /\ UNCHANGED <<toVisit, failed, crawlStats>>
           ELSE IF current.retries < config.maxRetries
           THEN /\ toVisit' = Append(toVisit, retryEntry(current))
                /\ Commit(Pace(w, Finally([Shared EXCEPT !.pend = @ \cup {currentUrl}]),
                               toVisit', visited, failed))
                /\ UNCHANGED <<visited, failed, crawlStats>>
           ELSE /\ failed' = failedAdd(failed, currentUrl)
                /\ crawlStats' = [crawlStats EXCEPT
                        !.errors = Append(@, [url |-> currentUrl, error |-> message])]
                /\ Commit(Pace(w, Finally(Shared), toVisit, visited, failed'))
                /\ UNCHANGED <<toVisit, visited>>
        /\ UNCHANGED <<config, consoleMessage, intercepted, normalized, process, phase, redirectedExternal, shuttingDown, hookCalls, result>>

\* page.goto rejects: navigation error, timeout, or an aborted request
GotoRejects(w) ==
    /\ phase = "running" /\ pc[w] = "goto"
    /\ Catch(w, "navigation")

\* page.goto resolves and the final URL has another origin (lines 576-597)
GotoResolvesExternal(w, finalUrl) ==
    LET currentUrl == toVisit[cur[w]].url
        \* response.request().redirectChain() of a navigation that no
        \* intercepted redirect took off the origin
        redirectChain == <<>>
    IN  /\ phase = "running" /\ pc[w] = "goto" /\ ~aborted[w]
        /\ Parses(finalUrl) /\ Origin(finalUrl) # baseOrigin
        /\ IF ~HasRedirect(redirectedExternal, currentUrl)
           THEN /\ redirectedExternal' = redirectedExternal \cup
                        {RedirectRecord(currentUrl, finalUrl,
                                        Append(redirectChain, finalUrl))}
                /\ crawlStats' = [crawlStats EXCEPT !.redirectsExternal = @ + 1]
           ELSE UNCHANGED <<redirectedExternal, crawlStats>>
        /\ visited' = visited \cup {currentUrl}
        /\ Commit(Continue(w, Shared, toVisit, visited', failed))
        /\ UNCHANGED <<config, consoleMessage, intercepted, normalized, process, phase, toVisit, failed, shuttingDown, gotoFails,
                       hookCalls, result>>

\* mutant of HookOrEvaluate: the link extraction does not wait for the hook
EvaluateFirst == "evaluate"

\* lines 606-611: the await that follows pagesScanned++
HookOrEvaluate == IF config.onPageVisit THEN "onPageVisit" ELSE "evaluate"

\* page.goto resolves on the crawl origin, or with a final URL that does not
\* parse (lines 598-608): visited.add, pagesScanned++, then the hook if any,
\* else the link extraction.
GotoResolves(w, finalUrl) ==
    LET currentUrl == toVisit[cur[w]].url
    IN  /\ phase = "running" /\ pc[w] = "goto" /\ ~aborted[w]
        /\ ~Parses(finalUrl) \/ Origin(finalUrl) = baseOrigin
        /\ visited' = visited \cup {currentUrl}
        /\ crawlStats' = [crawlStats EXCEPT !.pagesScanned = @ + 1]
        /\ hookCalls' = [hookCalls EXCEPT ![currentUrl] = @ + 1]
        /\ pc' = [pc EXCEPT ![w] = HookOrEvaluate]
        /\ UNCHANGED <<config, consoleMessage, intercepted, normalized, process, phase, toVisit, queueIndex, pending, failed,
                       redirectedExternal, activeWorkers, shuttingDown, cur,
                       currentPageUrl, aborted, gotoCalls, gotoFails, result>>

\* await options.onPageVisit(...) returns
HookReturns(w) ==
    /\ phase = "running" /\ pc[w] = "onPageVisit"
    /\ pc' = [pc EXCEPT ![w] = "evaluate"]
    /\ UNCHANGED <<config, consoleMessage, intercepted, normalized, process, phase, toVisit, queueIndex, pending, visited, failed,
                   crawlStats, redirectedExternal, activeWorkers, shuttingDown,
                   cur, currentPageUrl, aborted, gotoCalls, gotoFails,
                   hookCalls, result>>

\* await options.onPageVisit(...) throws
HookThrows(w) ==
    /\ phase = "running" /\ pc[w] = "onPageVisit"
    /\ Catch(w, "onPageVisit")

\* workerPage.evaluate(...) throws
EvaluateThrows(w) ==
    /\ phase = "running" /\ pc[w] = "evaluate"
    /\ Catch(w, "evaluate")

\* ------------------------------------------------------- link extraction
PdfNames == {"f.pdf"}
ImageNames == {"i.png"}

\* the four filters of lines 631-634 on the serialized href; "tel:" and
\* "mailto:" cannot occur inside an http(s) href built from the model's names
Excluded(u) ==
    \/ \E i \in 1..Len(u.path) : u.path[i] \in PdfNames
    \/ u.path[Len(u.path)] \in ImageNames

\* mutant of Eligible: the origin of the link is not compared
EligibleAnyOrigin(u) ==
    /\ Parses(u)
    /\ u.scheme \in {"http", "https"}
    /\ ~Excluded([u EXCEPT !.hash = ""])

\* the .map callback of lines 615-629: the href to keep, or none
Eligible(u) ==
    /\ Parses(u)
    /\ u.scheme \in {"http", "https"}
    /\ Origin(u) = baseOrigin
    /\ ~Excluded([u EXCEPT !.hash = ""])

RECURSIVE Unique(_)
Unique(s) ==
    IF s = <<>> THEN <<>>
    ELSE LET rest == Unique(SubSeq(s, 1, Len(s) - 1))
             last == s[Len(s)]
         IN  IF \E i \in 1..Len(rest) : rest[i] = last THEN rest
             ELSE Append(rest, last)

RECURSIVE AllLinks(_)
AllLinks(anchors) ==
    IF anchors = <<>> THEN <<>>
    ELSE IF Eligible(Head(anchors))
         THEN <<[Head(anchors) EXCEPT !.hash = ""]>> \o AllLinks(Tail(anchors))
         ELSE AllLinks(Tail(anchors))

\* mutant of Min: the slice keeps every link
MinFirst(a, b) == a

Min(a, b) == IF a < b THEN a ELSE b

\* the function evaluated in the page, lines 611-643
ExtractLinks(anchors, maxLinksPerPage) ==
    LET uniqueLinks == Unique(AllLinks(anchors))
    IN  [links |-> SubSeq(uniqueLinks, 1, Min(Len(uniqueLinks), maxLinksPerPage)),
         totalFound |-> Len(uniqueLinks),
         wasTruncated |-> Len(uniqueLinks) > maxLinksPerPage]

\* mutant of newLinksLength: every extracted link is counted as new
linksLength(links, newLinks) == Len(links)

\* newLinks.length, line 668
newLinksLength(links, newLinks) == Len(newLinks)

\* lines 654-665: the forEach over the extracted links; f carries toVisit,
\* pending and newLinks
RECURSIVE EnqueueLinks(_, _, _, _, _)
EnqueueLinks(links, depth, f, vis, fl) ==
    IF links = <<>> THEN f
    ELSE LET link == normalizeUrl(Head(links))
             g == IF link \notin vis /\ link \notin fl /\ link \notin f.pending
                  THEN [toVisit |-> Append(f.toVisit, Entry(link, depth + 1, 0)),
                        pending |-> f.pending \cup {link},
                        newLinks |-> Append(f.newLinks, link)]
                  ELSE f
         IN  EnqueueLinks(Tail(links), depth, g, vis, fl)

AnchorLists == UNION {[1..n -> Hrefs] : n \in 0..MaxAnchors}

\* what the evaluated function can return for the pages of the model
LinkResults ==
    {ExtractLinks(anchors, config.maxLinksPerPage) : anchors \in AnchorLists}

\* workerPage.evaluate(...) returns linkResult (lines 645-671), then finally
\* and the pacing wait
EvaluateReturns(w, linkResult) ==
    LET current == toVisit[cur[w]]
        links == linkResult.links
        truncatedCount == IF linkResult.wasTruncated
                          THEN linkResult.totalFound - Len(links) ELSE 0
        f == EnqueueLinks(links, current.depth,
                          [toVisit |-> toVisit, pending |-> pending, newLinks |-> <<>>],
                          visited, failed)
    IN  /\ phase = "running" /\ pc[w] = "evaluate"
        /\ toVisit' = f.toVisit
        /\ crawlStats' = [crawlStats EXCEPT
                !.linksTruncated = @ + truncatedCount,
                !.linksFound = @ + Len(links),
                !.newLinksFound = @ + newLinksLength(links, f.newLinks)]
        /\ Commit(Pace(w, Finally([Shared EXCEPT !.pend = f.pending]),
                       toVisit', visited, failed))
        /\ UNCHANGED <<config, consoleMessage, intercepted, normalized, process, phase, visited, failed, redirectedExternal,
                       shuttingDown, gotoFails, hookCalls, result>>

\* ------------------------------------------------------ request handler
Request(mainFrame, resourceType, url, redirectChain) ==
    [mainFrame |-> mainFrame, resourceType |-> resourceType, url |-> url,
     redirectChain |-> redirectChain]

\* The 'request' listener, lines 484-524.  hook is what onRequestIntercept
\* does with the request: "absent", "truthy" or "falsy".
\* mutant of PassOn: request.continue() also after a truthy hook result
PassOnAlways(red, hook) ==
    [abort |-> FALSE, continue |-> TRUE, hookCalled |-> hook # "absent",
     red |-> red, recorded |-> 0]

\* lines 516-523: the hook, if any, then request.continue() unless the hook
\* returned a truthy value
PassOn(red, hook) ==
    [abort |-> FALSE, continue |-> hook # "truthy",
     hookCalled |-> hook # "absent", red |-> red, recorded |-> 0]

requestHandler(request, red, hook) ==
    LET chain == request.redirectChain
        fromUrl == normalizeUrl(chain[Len(chain)])
        toUrl == normalizeUrl(request.url)
        pass == PassOn(red, hook)
    IN  IF request.mainFrame /\ request.resourceType = "document"
        THEN IF ~Parses(request.url)
             THEN [abort |-> TRUE, continue |-> FALSE, hookCalled |-> FALSE,
                   red |-> red, recorded |-> 0]
             ELSE IF Origin(request.url) # baseOrigin
             THEN IF Len(chain) > 0 /\ ~HasRedirect(red, fromUrl)
                  THEN [abort |-> TRUE, continue |-> FALSE, hookCalled |-> FALSE,
                        red |-> red \cup {RedirectRecord(fromUrl, toUrl,
                                              Append(chain, request.url))},
                        recorded |-> 1]
                  ELSE [abort |-> TRUE, continue |-> FALSE, hookCalled |-> FALSE,
                        red |-> red, recorded |-> 0]
             ELSE pass
        ELSE pass

\* requests a worker page may issue while it navigates to url
Requests(url) ==
    {Request(TRUE, "document", url, <<>>),
     Request(TRUE, "document", UrlExternal, <<>>),
     Request(TRUE, "document", UrlExternal, <<url>>),
     Request(FALSE, "script", UrlExternal, <<>>)}
    \cup {Request(TRUE, "document", UrlExternal, <<url, h>>) : h \in HopUrls}

HookOutcomes == {"absent", "truthy", "falsy"}

\* what the listener can do with a request of a page navigating to url
Handled(url) ==
    {requestHandler(request, redirectedExternal, hook) :
        request \in Requests(url), hook \in HookOutcomes}

\* the listener has run on a request of worker w's page, with outcome r:
\* its effect on the state of the crawl
Listener(w, r) ==
    /\ phase = "running" /\ pc[w] = "goto" /\ ~aborted[w]
    /\ redirectedExternal' = r.red
    /\ crawlStats' = [crawlStats EXCEPT !.redirectsExternal = @ + r.recorded]
    /\ aborted' = [aborted EXCEPT ![w] = r.abort]
    /\ UNCHANGED <<config, consoleMessage, normalized, process, phase, toVisit, queueIndex, pending,
                   visited, failed, activeWorkers, shuttingDown, pc, cur,
                   currentPageUrl, gotoCalls, gotoFails, hookCalls, result>>

OnRequest(w, r) ==
    /\ Listener(w, r)
    /\ UNCHANGED intercepted

\* the same run of the listener, with what it did to the request kept:
\* request.abort(), request.continue() and the call of the hook
Intercept(w, request, hook) ==
    LET r == requestHandler(request, redirectedExternal, hook)
    IN  /\ Listener(w, r)
        /\ intercepted' = [seen |-> TRUE, request |-> request, hook |-> hook,
                           aborts |-> IF r.abort THEN 1 ELSE 0,
                           continues |-> IF r.continue THEN 1 ELSE 0,
                           hookCalls |-> IF r.hookCalled THEN 1 ELSE 0]

\* ------------------------------------------------------------ crawlSite
\* mutant of Sigint: the first signal already ends the process
SigintKillsAtOnce ==
    /\ \/ phase = "setup"
       \/ phase = "running" /\ \E w \in Workers : pc[w] # "exited"
    /\ phase' = "killed"
    /\ UNCHANGED <<config, consoleMessage, intercepted, normalized, process, toVisit, queueIndex, pending, visited, failed,
                   crawlStats, redirectedExternal, activeWorkers, shuttingDown,
                   pc, cur, currentPageUrl, aborted, gotoCalls, gotoFails,
                   hookCalls, result>>

\* sigintHandler, lines 456-463, while it is installed (lines 465-703).  The
\* return of the last worker, the resolution of Promise.all and
\* removeListener run without yielding to the event loop, so no signal is
\* handled once every worker has returned.
Sigint ==
    /\ \/ phase = "setup"
       \/ phase = "running" /\ \E w \in Workers : pc[w] # "exited"
    /\ IF shuttingDown
       THEN phase' = "killed" /\ UNCHANGED shuttingDown
       ELSE shuttingDown' = TRUE /\ UNCHANGED phase
    /\ UNCHANGED <<config, consoleMessage, intercepted, normalized, process, toVisit, queueIndex, pending, visited, failed,
                   crawlStats, redirectedExternal, activeWorkers, pc, cur,
                   currentPageUrl, aborted, gotoCalls, gotoFails, hookCalls,
                   result>>

\* mutant of PromiseAll: settled as soon as one processQueue has returned
PromiseRace == \E w \in Workers : pc[w] = "exited"

\* await Promise.all(workerPages.map(processQueue)), line 700
PromiseAll == \A w \in Workers : pc[w] = "exited"

\* Promise.all resolves; finally: removeListener, await browser.close()
CloseBrowser ==
    /\ phase = "running"
    /\ PromiseAll
    /\ phase' = "closing"
    /\ UNCHANGED <<config, consoleMessage, intercepted, normalized, process, toVisit, queueIndex, pending, visited, failed,
                   crawlStats, redirectedExternal, activeWorkers, shuttingDown,
                   pc, cur, currentPageUrl, aborted, gotoCalls, gotoFails,
                   hookCalls, result>>

RECURSIVE UrlsFrom(_, _)
UrlsFrom(tv, i) ==
    IF i > Len(tv) THEN <<>> ELSE <<tv[i].url>> \o UrlsFrom(tv, i + 1)

\* mutant of abandonedUrls: nothing is reported as abandoned
abandonedNone == <<>>

\* toVisit.slice(queueIndex).map(item => item.url), line 708
abandonedUrls == UrlsFrom(toVisit, queueIndex + 1)

\* lines 707-756
ReturnResult ==
    /\ phase = "closing"
    /\ phase' = "returned"
    /\ result' = [returned |-> TRUE,
                  partial |-> shuttingDown,
                  pagesScanned |-> visited,
                  pagesFailed |-> failed,
                  pagesAbandoned |-> abandonedUrls,
                  pagesRedirectedExternal |-> redirectedExternal,
                  crawlStats |-> crawlStats]
    /\ UNCHANGED <<config, consoleMessage, intercepted, normalized, process, toVisit, queueIndex, pending, visited, failed,
                   crawlStats, redirectedExternal, activeWorkers, shuttingDown,
                   pc, cur, currentPageUrl, aborted, gotoCalls, gotoFails,
                   hookCalls>>

FinalUrls == {baseUrl, UrlExternal, NoUrl}

Next ==
    \/ StartWorkers
    \/ \E w \in Workers : IdleWake(w)
    \/ \E w \in Workers : DelayDone(w)
    \/ \E w \in Workers : GotoRejects(w)
    \/ \E w \in Workers : pc[w] = "goto" /\ \E finalUrl \in FinalUrls : GotoResolves(w, finalUrl)
    \/ \E w \in Workers :
          pc[w] = "goto" /\ \E finalUrl \in FinalUrls : GotoResolvesExternal(w, finalUrl)
    \/ \E w \in Workers : HookReturns(w)
    \/ \E w \in Workers : HookThrows(w)
    \/ \E w \in Workers :
          pc[w] = "evaluate" /\ \E linkResult \in LinkResults : EvaluateReturns(w, linkResult)
    \/ \E w \in Workers : EvaluateThrows(w)
    \/ \E w \in Workers :
          pc[w] = "goto" /\ \E r \in Handled(currentPageUrl[w]) : OnRequest(w, r)
    \/ Sigint
    \/ CloseBrowser
    \/ ReturnResult

Spec == Init /\ [][Next]_vars

Range(seq) == {seq[i] : i \in 1..Len(seq)}

\* ------------------------------------------------- a crawl of a fixed site
\* A run without cancellation over a site whose pages do not change: every
\* navigation eventually resolves on the page asked for or rejects with a
\* retry left, the hook and the link extraction return, and the page budget
\* exceeds the site.
LivePages == 6

\* the anchors of each page of the site, in document order
Site(url) ==
    IF url = normalizeUrl(baseUrl) THEN <<UrlASlash, UrlC>>
    ELSE IF url = UrlA THEN <<UrlB>>
    ELSE IF url = UrlB THEN <<UrlD>>
    ELSE IF url = UrlC THEN <<UrlD, UrlExternal>>
    ELSE <<>>

LiveConfigs ==
    [maxPages : {LivePages},
     maxLinksPerPage : {MaxAnchors},
     maxDepth : 0..MaxDepthBound,
     concurrency : 1..MaxConcurrency,
     maxRetries : 0..MaxRetriesBound,
     delay : {0, 1},
     onPageVisit : {TRUE}]

LiveInit ==
    /\ config \in LiveConfigs
    /\ phase = "setup"
    /\ toVisit = <<Entry(normalizeUrl(baseUrl), 0, 0)>>
    /\ queueIndex = 0
    /\ pending = {normalizeUrl(baseUrl)}
    /\ visited = {}
    /\ failed = {}
    /\ crawlStats = [pagesScanned |-> 0, linksFound |-> 0, newLinksFound |-> 0,
                     linksTruncated |-> 0, redirectsExternal |-> 0, errors |-> <<>>]
    /\ redirectedExternal = {}
    /\ activeWorkers = 0
    /\ shuttingDown = FALSE
    /\ pc = [w \in Workers |-> "unstarted"]
    /\ cur = [w \in Workers |-> 0]
    /\ currentPageUrl = [w \in Workers |-> NoUrl]
    /\ aborted = [w \in Workers |-> FALSE]
    /\ gotoCalls = [u \in CrawlUrls |-> 0]
    /\ gotoFails = [u \in CrawlUrls |-> 0]
    /\ hookCalls = [u \in CrawlUrls |-> 0]
    /\ result = NoResult
    /\ intercepted = NoRequest
    /\ consoleMessage = NoCall
    /\ normalized = NoCall
    /\ process = NoProcess

\* workerPage.evaluate(...) returns the links of the page that was asked for
EvaluateSite(w) ==
    /\ pc[w] = "evaluate"
    /\ \E linkResult \in {ExtractLinks(Site(toVisit[cur[w]].url),
                                       config.maxLinksPerPage)} :
           EvaluateReturns(w, linkResult)

\* a transient failure: page.goto rejects while the entry has a retry left
GotoRejectsTransient(w) ==
    /\ pc[w] = "goto"
    /\ toVisit[cur[w]].retries < config.maxRetries
    /\ GotoRejects(w)

LiveNext ==
    \/ StartWorkers
    \/ \E w \in Workers : IdleWake(w)
    \/ \E w \in Workers : DelayDone(w)
    \/ \E w \in Workers : GotoRejectsTransient(w)
    \/ \E w \in Workers : pc[w] = "goto" /\ GotoResolves(w, toVisit[cur[w]].url)
    \/ \E w \in Workers : HookReturns(w)
    \/ \E w \in Workers : EvaluateSite(w)
    \/ CloseBrowser
    \/ ReturnResult

\* every step that can be taken is eventually taken: timers fire, navigations
\* settle, awaited calls return
LiveSpec == LiveInit /\ [][LiveNext]_vars /\ WF_vars(LiveNext)

\* A run over the same site in which a navigation may also reject for
\* good and SIGINT may arrive.  The steps of the program:
TermSteps ==
    \/ StartWorkers
    \/ \E w \in Workers : IdleWake(w)
    \/ \E w \in Workers : DelayDone(w)
    \/ \E w \in Workers : GotoRejects(w)
    \/ \E w \in Workers : pc[w] = "goto" /\ GotoResolves(w, toVisit[cur[w]].url)
    \/ \E w \in Workers : HookReturns(w)
    \/ \E w \in Workers : EvaluateSite(w)
    \/ CloseBrowser
    \/ ReturnResult

TermNext ==
    \/ TermSteps
    \/ Sigint

\* with a pacing delay, so that every worker yields between two entries;
\* retries are explored below the largest depth budget
TermInit ==
    /\ LiveInit
    /\ config.delay > 0
    /\ config.maxDepth < MaxDepthBound \/ config.maxRetries = 0

\* timers fire, navigations settle and awaited calls return: a step of the
\* program that can be taken is eventually taken; no signal has to arrive
TermSpec == TermInit /\ [][TermNext]_vars /\ WF_vars(TermSteps)

\* the same steps over the site under every configuration of Configs: page
\* budgets below the size of the site and a link cap below a page's links
SiteSpec == Init /\ [][TermNext]_vars

\* the 'console' listener of worker w's page, lines 527-531: the hook is
\* called with the page's currentPageUrl
ConsoleMessage(w) ==
    /\ phase \in {"setup", "running"}
    /\ consoleMessage' = [called |-> TRUE, worker |-> w,
                          pageUrl |-> currentPageUrl[w]]
    /\ UNCHANGED <<config, intercepted, normalized, process, phase, toVisit,
                   queueIndex, pending, visited, failed, crawlStats,
                   redirectedExternal, activeWorkers, shuttingDown, pc, cur,
                   currentPageUrl, aborted, gotoCalls, gotoFails, hookCalls,
                   result>>

\* the crawl of the site with console messages from the worker pages
ConsoleNext ==
    \/ TermNext
    \/ \E w \in Workers : ConsoleMessage(w)

ConsoleSpec == Init /\ [][ConsoleNext]_vars

\* the URLs that link extraction yields on a page of the site
SiteLinks(url) ==
    Range(ExtractLinks(Site(url), MaxAnchors + 1).links)

\* the URLs reachable from the seed by a chain of at most d links
RECURSIVE ReachableWithin(_)
ReachableWithin(d) ==
    IF d = 0 THEN {normalizeUrl(baseUrl)}
    ELSE LET near == ReachableWithin(d - 1)
         IN  near \cup UNION {{normalizeUrl(l) : l \in SiteLinks(u)} : u \in near}

\* ------------------------------------------------ the request listener
\* The listener applied to the requests a page can issue, with a log of its
\* calls on each request.  One worker navigates to the seed and, after an
\* aborted navigation, to its retry.
RequestConfigs ==
    {c \in Configs : c.concurrency = 1 /\ c.maxPages = 1 /\ c.maxDepth = 0
                     /\ c.maxLinksPerPage = 1 /\ c.delay = 0}

RequestInit == Init /\ config \in RequestConfigs

ResourceTypes == {"document", "script", "image"}

\* request.url(): on the origin, on another origin, or not a URL
RequestUrls == {baseUrl, UrlATracked, UrlExternal, NoUrl}

RedirectChains(url) == {<<>>, <<url>>, <<url, UrlB>>}

AllRequests(url) ==
    {Request(mainFrame, resourceType, u, chain) :
        mainFrame \in BOOLEAN, resourceType \in ResourceTypes,
        u \in RequestUrls, chain \in RedirectChains(url)}

RequestNext ==
    \/ StartWorkers
    \/ \E w \in Workers :
          pc[w] = "goto" /\ \E request \in AllRequests(currentPageUrl[w]) :
              \E hook \in HookOutcomes : Intercept(w, request, hook)
    \/ \E w \in Workers : GotoRejects(w)
    \/ CloseBrowser
    \/ ReturnResult

RequestSpec == RequestInit /\ [][RequestNext]_vars

\* --------------------------------------------------- normalizeUrl alone
\* normalizeUrl applied to URL strings of every shape it distinguishes, and
\* to its own output; the last call is kept.
MaxTrailingSlashes == 2
MaxQueryLen == 2

Slashes(n) == [i \in 1..n |-> ""]

\* "/", "/a", "/a/", "/a//", ..., "/a/b"
InputPaths ==
    {<<"">>, <<"a", "b">>} \cup {<<"a">> \o Slashes(n) : n \in 0..MaxTrailingSlashes}

QueryPairs == {<<"p", "1">>, <<"p", "2">>, <<"q", "1">>, <<"utm_source", "y">>}

InputQueries == UNION {[1..n -> QueryPairs] : n \in 0..MaxQueryLen}

\* absolute URLs, and strings that "new URL" rejects: "" and "a/#h"
UrlInputs ==
    {MkUrl("https", BaseHost, path, query, hash) :
        path \in InputPaths, query \in InputQueries, hash \in {"", "h"}}
    \cup {NoUrl, MkUrl("", "", <<"a", "">>, <<>>, "h")}

\* a call of normalizeUrl; again: its argument is what the call before returned
Call(u, again) ==
    [called |-> TRUE, input |-> u, output |-> normalizeUrl(u), again |-> again]

\* normalizeUrl(u)
Normalize(u) ==
    /\ normalized' = Call(u, FALSE)
    /\ UNCHANGED <<config, consoleMessage, intercepted, process, phase, toVisit, queueIndex, pending,
                   visited, failed, crawlStats, redirectedExternal,
                   activeWorkers, shuttingDown, pc, cur, currentPageUrl,
                   aborted, gotoCalls, gotoFails, hookCalls, result>>

\* normalizeUrl applied to what the last call returned
Renormalize ==
    /\ normalized.called
    /\ normalized' = Call(normalized.output, TRUE)
    /\ UNCHANGED <<config, consoleMessage, intercepted, process, phase, toVisit, queueIndex, pending,
                   visited, failed, crawlStats, redirectedExternal,
                   activeWorkers, shuttingDown, pc, cur, currentPageUrl,
                   aborted, gotoCalls, gotoFails, hookCalls, result>>

NormalizeInit == RequestInit /\ config.maxRetries = 0

NormalizeNext ==
    \/ \E u \in UrlInputs : Normalize(u)
    \/ Renormalize

NormalizeSpec == NormalizeInit /\ [][NormalizeNext]_vars

\* ------------------------------------------------- the start of crawlSite
\* crawlSite from its call to the first fetch, for a baseUrl of any kind:
\* getCommonConfig, new URL(config.baseUrl).origin, puppeteer.launch, the
\* initial crawl state, the worker pages and the first processQueue runs.
UrlFtp == MkUrl("ftp", BaseHost, <<"">>, <<>>, "")
UrlHttp == MkUrl("http", BaseHost, <<"a", "">>, <<>>, "")
UrlRelative == MkUrl("", "", <<"a">>, <<>>, "")

\* BASE_URL / --baseUrl: absolute http(s), another scheme, relative, empty
SeedInputs == {baseUrl, UrlHttp, UrlFtp, UrlRelative, NoUrl}

StartConfigs ==
    {[maxPages |-> c.maxPages, maxLinksPerPage |-> c.maxLinksPerPage,
      maxDepth |-> c.maxDepth, concurrency |-> c.concurrency,
      maxRetries |-> c.maxRetries, delay |-> c.delay,
      onPageVisit |-> c.onPageVisit, baseUrl |-> seed] :
        c \in Configs, seed \in SeedInputs}

StartInit ==
    /\ config \in StartConfigs
    /\ phase = "called"
    /\ toVisit = <<>>
    /\ queueIndex = 0
    /\ pending = {}
    /\ visited = {}
    /\ failed = {}
    /\ crawlStats = [pagesScanned |-> 0, linksFound |-> 0, newLinksFound |-> 0,
                     linksTruncated |-> 0, redirectsExternal |-> 0, errors |-> <<>>]
    /\ redirectedExternal = {}
    /\ activeWorkers = 0
    /\ shuttingDown = FALSE
    /\ pc = [w \in Workers |-> "unstarted"]
    /\ cur = [w \in Workers |-> 0]
    /\ currentPageUrl = [w \in Workers |-> NoUrl]
    /\ aborted = [w \in Workers |-> FALSE]
    /\ gotoCalls = [u \in CrawlUrls |-> 0]
    /\ gotoFails = [u \in CrawlUrls |-> 0]
    /\ hookCalls = [u \in CrawlUrls |-> 0]
    /\ result = NoResult
    /\ intercepted = NoRequest
    /\ consoleMessage = NoCall
    /\ normalized = NoCall
    /\ process = NoProcess

\* getCommonConfig, script-utils.js lines 61-64: process.exit(1) without a
\* baseUrl
ConfigMissing ==
    /\ phase = "called"
    /\ config.baseUrl = NoUrl
    /\ phase' = "exited"
    /\ UNCHANGED <<config, consoleMessage, intercepted, normalized, process, toVisit, queueIndex,
                   pending, visited, failed, crawlStats, redirectedExternal,
                   activeWorkers, shuttingDown, pc, cur, currentPageUrl,
                   aborted, gotoCalls, gotoFails, hookCalls, result>>

\* line 414: new URL(config.baseUrl) throws and crawlSite rejects
RejectBaseUrl ==
    /\ phase = "called"
    /\ config.baseUrl # NoUrl
    /\ ~Parses(config.baseUrl)
    /\ phase' = "rejected"
    /\ UNCHANGED <<config, consoleMessage, intercepted, normalized, process, toVisit, queueIndex,
                   pending, visited, failed, crawlStats, redirectedExternal,
                   activeWorkers, shuttingDown, pc, cur, currentPageUrl,
                   aborted, gotoCalls, gotoFails, hookCalls, result>>

\* lines 414-465: the origin is taken, the browser is launched and the crawl
\* state is initialised with the normalized baseUrl as the seed
Launch ==
    LET normalizedBaseUrl == normalizeUrl(config.baseUrl)
    IN  /\ phase = "called"
        /\ Parses(config.baseUrl)
        /\ phase' = "setup"
        /\ toVisit' = <<Entry(normalizedBaseUrl, 0, 0)>>
        /\ pending' = {normalizedBaseUrl}
        /\ gotoCalls' = [u \in CrawlUrls \cup {normalizedBaseUrl} |-> 0]
        /\ gotoFails' = [u \in CrawlUrls \cup {normalizedBaseUrl} |-> 0]
        /\ hookCalls' = [u \in CrawlUrls \cup {normalizedBaseUrl} |-> 0]
        /\ UNCHANGED <<config, consoleMessage, intercepted, normalized, process, queueIndex, visited,
                       failed, crawlStats, redirectedExternal, activeWorkers,
                       shuttingDown, pc, cur, currentPageUrl, aborted, result>>

StartNext ==
    \/ ConfigMissing
    \/ RejectBaseUrl
    \/ Launch
    \/ StartWorkers

StartSpec == StartInit /\ [][StartNext]_vars

\* --------------------------------------------------------- getCommonConfig
\* A run of the validate or create script: the script's own call of
\* getCommonConfig at module load, then the call crawlSite makes for the
\* engine.  Strings are sequences of characters.
MaxArgs == 1
MaxEnv == 2
MaxStringLen == 2

Chars == {"1", "x"}
Strings == UNION {[1..n -> Chars] : n \in 0..MaxStringLen}

\* undefined and the empty string: both are falsy to || and to !
Undefined == <<>>

Get(f, k) == IF k \in DOMAIN f THEN f[k] ELSE Undefined

\* a || b
Or(a, b) == IF a # Undefined THEN a ELSE b

DigitValue == [c \in {"0", "1", "2", "5"} |->
                  CASE c = "0" -> 0 [] c = "1" -> 1 [] c = "2" -> 2 [] c = "5" -> 5]

RECURSIVE LeadingDigits(_)
LeadingDigits(s) ==
    IF s = <<>> \/ Head(s) \notin DOMAIN DigitValue
    THEN <<>>
    ELSE <<Head(s)>> \o LeadingDigits(Tail(s))

RECURSIVE Decimal(_)
Decimal(s) ==
    IF s = <<>>
    THEN 0
    ELSE 10 * Decimal(SubSeq(s, 1, Len(s) - 1)) + DigitValue[s[Len(s)]]

\* no string of the model has a sign, so no parse is negative
NaN == -1

\* parseInt(raw, 10): the leading digits, NaN without one
parseInt(raw) ==
    IF LeadingDigits(raw) = <<>> THEN NaN ELSE Decimal(LeadingDigits(raw))

\* the options of type string that carry a setting of the engine
StringOptions ==
    {"baseUrl", "base-url", "maxPages", "max-pages", "maxLinksPerPage",
     "max-links-per-page", "maxDepth", "max-depth", "concurrency",
     "maxRetries", "max-retries"}

\* a command line: "--option value" pairs
Args ==
    UNION {[1..n -> [option : StringOptions, value : Strings]] : n \in 0..MaxArgs}

\* parseArgs({ args, options, strict: false }).values: the last value given
\* for each option
parseArgs(args) ==
    [o \in {args[i].option : i \in DOMAIN args} |->
        LET last == CHOOSE i \in DOMAIN args :
                        /\ args[i].option = o
                        /\ \A j \in DOMAIN args : args[j].option = o => j <= i
        IN args[last].value]

EnvNames ==
    {"BASE_URL", "MAX_PAGES", "MAX_LINKS_PER_PAGE", "MAX_DEPTH", "CONCURRENCY",
     "MAX_RETRIES"}

Envs ==
    UNION {[D -> Strings \ {Undefined}] :
              D \in {E \in SUBSET EnvNames : Cardinality(E) <= MaxEnv}}

getCommonConfig(args, env) ==
    LET values == parseArgs(args)
        cliBaseUrl == Or(Get(values, "baseUrl"), Get(values, "base-url"))
        cliMaxPages == Or(Get(values, "maxPages"), Get(values, "max-pages"))
        maxPagesRaw ==
            Or(cliMaxPages, Or(Get(env, "MAX_PAGES"), <<"5", "0", "0", "0", "0">>))
        cliMaxLinksPerPage ==
            Or(Get(values, "maxLinksPerPage"), Get(values, "max-links-per-page"))
        maxLinksPerPageRaw ==
            Or(cliMaxLinksPerPage,
               Or(Get(env, "MAX_LINKS_PER_PAGE"), <<"1", "0", "0", "0">>))
        cliMaxDepth == Or(Get(values, "maxDepth"), Get(values, "max-depth"))
        maxDepthRaw == Or(cliMaxDepth, Or(Get(env, "MAX_DEPTH"), <<"1", "0">>))
        cliConcurrency == Get(values, "concurrency")
        concurrencyRaw == Or(cliConcurrency, Or(Get(env, "CONCURRENCY"), <<"5">>))
        cliMaxRetries == Or(Get(values, "maxRetries"), Get(values, "max-retries"))
        maxRetriesRaw == Or(cliMaxRetries, Or(Get(env, "MAX_RETRIES"), <<"2">>))
    IN [baseUrl |-> Or(cliBaseUrl, Get(env, "BASE_URL")),
        maxPages |-> parseInt(maxPagesRaw),
        maxLinksPerPage |-> parseInt(maxLinksPerPageRaw),
        maxDepth |-> parseInt(maxDepthRaw),
        concurrency |-> parseInt(concurrencyRaw),
        maxRetries |-> parseInt(maxRetriesRaw)]

\* process.exit(1): lines 61-64 without a baseUrl, parseIntOrExit on NaN
Exits(c) ==
    \/ c.baseUrl = Undefined
    \/ \E k \in {"maxPages", "maxLinksPerPage", "maxDepth", "concurrency",
                 "maxRetries"} : c[k] = NaN

NoConfig == [read |-> FALSE]

Processes ==
    {[started |-> TRUE, argv |-> a, env |-> e, config |-> NoConfig] :
        a \in Args, e \in Envs}

ConfigInit ==
    /\ process \in Processes
    /\ config = NoConfig
    /\ phase = "script"
    /\ toVisit = <<>>
    /\ queueIndex = 0
    /\ pending = {}
    /\ visited = {}
    /\ failed = {}
    /\ crawlStats = [pagesScanned |-> 0, linksFound |-> 0, newLinksFound |-> 0,
                     linksTruncated |-> 0, redirectsExternal |-> 0, errors |-> <<>>]
    /\ redirectedExternal = {}
    /\ activeWorkers = 0
    /\ shuttingDown = FALSE
    /\ pc = <<>>
    /\ cur = <<>>
    /\ currentPageUrl = <<>>
    /\ aborted = <<>>
    /\ gotoCalls = [u \in CrawlUrls |-> 0]
    /\ gotoFails = [u \in CrawlUrls |-> 0]
    /\ hookCalls = [u \in CrawlUrls |-> 0]
    /\ result = NoResult
    /\ intercepted = NoRequest
    /\ consoleMessage = NoCall
    /\ normalized = NoCall

\* the script's module-level config: getCommonConfig({ reportPrefix,
\* reportsDir }), whose args default to process.argv.slice(2)
ScriptConfig ==
    /\ phase = "script"
    /\ LET c == getCommonConfig(process.argv, process.env)
       IN IF Exits(c)
          THEN phase' = "exited" /\ UNCHANGED process
          ELSE phase' = "called" /\ process' = [process EXCEPT !.config = c]
    /\ UNCHANGED <<config, consoleMessage, intercepted, normalized, toVisit, queueIndex,
                   pending, visited, failed, crawlStats, redirectedExternal,
                   activeWorkers, shuttingDown, pc, cur, currentPageUrl,
                   aborted, gotoCalls, gotoFails, hookCalls, result>>

\* crawlSite lines 407-412: the scripts pass no args in the options, so
\* options.args || [] is the empty command line
CrawlSiteConfig ==
    /\ phase = "called"
    /\ LET c == getCommonConfig(<<>>, process.env)
       IN IF Exits(c)
          THEN phase' = "exited" /\ UNCHANGED config
          ELSE phase' = "configured" /\ config' = c
    /\ UNCHANGED <<consoleMessage, intercepted, normalized, process, toVisit, queueIndex,
                   pending, visited, failed, crawlStats, redirectedExternal,
                   activeWorkers, shuttingDown, pc, cur, currentPageUrl,
                   aborted, gotoCalls, gotoFails, hookCalls, result>>

ConfigNext ==
    \/ ScriptConfig
    \/ CrawlSiteConfig

ConfigSpec == ConfigInit /\ [][ConfigNext]_vars

\* ------------------------------------------------------------ properties
InFlight(w) == pc[w] \in {"goto", "onPageVisit", "evaluate"}

CurrentUrl(w) == toVisit[cur[w]].url

UnclaimedIndexes == (queueIndex + 1)..Len(toVisit)

FrontierUrls == {toVisit[i].url : i \in 1..Len(toVisit)}

\* C1: each normalized URL is fetched successfully at most once: no two
\* workers have the same URL in flight at the same time, and the page-visit
\* hook is invoked (pagesScanned incremented) at most once per URL.
C1_FetchedAtMostOnce ==
    /\ \A v, w \in Workers :
          v # w /\ InFlight(v) /\ InFlight(w) => CurrentUrl(v) # CurrentUrl(w)
    /\ \A u \in CrawlUrls : hookCalls[u] <= 1

\* C2: in every reachable state no URL is in both the visited set and the
\* failed set.
C2_VisitedFailedDisjoint == visited \cap failed = {}

\* C3: in every reachable state the size of the visited set is at most
\* maxPages.
C3_VisitedWithinBudget == Cardinality(visited) <= config.maxPages

\* C5: in every reachable state a URL that is in the pending set is in
\* neither the visited set nor the failed set.
C5_PendingNotTerminal == pending \cap (visited \cup failed) = {}

\* C6: in every reachable state the pending set is exactly the set of URLs
\* of the unclaimed frontier entries, and no two unclaimed entries carry the
\* same URL.
C6_PendingIsUnclaimed ==
    /\ pending = {toVisit[i].url : i \in UnclaimedIndexes}
    /\ \A i, j \in UnclaimedIndexes : i # j => toVisit[i].url # toVisit[j].url

\* C4: claiming is atomic per frontier entry: the claim index only moves
\* forward, the entry handed to a worker is the one the index has just
\* passed (so entries are handed out in the order they were appended and
\* none is handed out twice), no two workers hold the same entry, and the
\* URL of every entry claimed in a step is out of pending after that step.
C4_ClaimAtomic ==
    /\ [](\A v, w \in Workers : v # w /\ cur[v] # 0 => cur[v] # cur[w])
    /\ [](\A w \in Workers : cur[w] <= queueIndex)
    /\ [][/\ queueIndex' >= queueIndex
          /\ \A w \in Workers :
                cur'[w] # 0 /\ cur'[w] # cur[w] =>
                    cur'[w] = queueIndex' /\ queueIndex' > queueIndex
          /\ \A i \in (queueIndex + 1)..queueIndex' : toVisit'[i].url \notin pending'
         ]_vars

\* two workers hold entries they claimed one after the other
C4_Witness ==
    \E v, w \in Workers : v # w /\ InFlight(v) /\ InFlight(w) /\ cur[v] < cur[w]

\* C7: links that normalize to a URL already in visited, failed or pending
\* are not enqueued, so link discovery produces at most one frontier entry
\* for any URL (entries with retries = 0; the seed is one of them).
C7_OneEntryPerUrl ==
    \A u \in CrawlUrls :
        Cardinality({i \in 1..Len(toVisit) :
                        toVisit[i].url = u /\ toVisit[i].retries = 0}) <= 1

ErrorUrls == {crawlStats.errors[i].url : i \in 1..Len(crawlStats.errors)}

\* C8: no entry deeper than maxDepth is fetched, re-enqueued as a retry, or
\* the reason a URL is in visited, failed or the errors list: every worker's
\* claimed entry is within maxDepth, every retry entry is within maxDepth,
\* and every URL in visited, failed or errors has a claimed entry within
\* maxDepth.
C8_DepthRespected ==
    /\ \A w \in Workers : cur[w] # 0 => toVisit[cur[w]].depth <= config.maxDepth
    /\ \A i \in 1..Len(toVisit) :
          toVisit[i].retries > 0 => toVisit[i].depth <= config.maxDepth
    /\ \A u \in visited \cup failed \cup ErrorUrls :
          \E i \in 1..queueIndex :
              toVisit[i].url = u /\ toVisit[i].depth <= config.maxDepth

\* an entry deeper than maxDepth was claimed, and the run went on to its end
C8_Witness ==
    /\ phase = "returned"
    /\ \E i \in 1..queueIndex : toVisit[i].depth > config.maxDepth

\* C9: a URL is added to failed only after exactly maxRetries + 1 fetch
\* attempts of it, every one of which failed.
C9_FailedAfterAllAttempts ==
    [][\A u \in CrawlUrls :
          u \notin failed /\ u \in failed' =>
              /\ gotoCalls'[u] = config.maxRetries + 1
              /\ gotoFails'[u] = gotoCalls'[u]
      ]_vars

\* C10: when the run has completed, every URL that was ever placed in the
\* frontier is in exactly one of the visited, failed and abandoned lists of
\* the result.
C10_ExactlyOneList ==
    result.returned =>
        \A u \in FrontierUrls :
            Cardinality({k \in {"visited", "failed", "abandoned"} :
                \/ k = "visited" /\ u \in result.pagesScanned
                \/ k = "failed" /\ u \in result.pagesFailed
                \/ k = "abandoned" /\ u \in Range(result.pagesAbandoned)}) = 1

\* C11: in a fair run without cancellation, with a page budget larger than
\* the site and no link truncation, every URL reachable from the seed by a
\* chain of at most maxDepth same-origin links is eventually in visited or in
\* failed.  The two sets no longer change once the crawl has returned, so by
\* then every such URL is in one of them.
C11_ReachableTerminal ==
    result.returned =>
        ReachableWithin(config.maxDepth) \subseteq visited \cup failed

\* the URLs of the frontier entries not claimed, in frontier order
Unclaimed == [i \in 1..(Len(toVisit) - queueIndex) |-> toVisit[queueIndex + i].url]

\* C12: once the size of visited has reached maxPages no worker claims
\* another frontier entry (the claim index stays, the frontier only grows at
\* its tail), and every entry unclaimed from then on is in the abandoned list
\* of the result.
C12_NoClaimAfterBudget ==
    /\ [][Cardinality(visited') >= config.maxPages => queueIndex' = queueIndex]_vars
    /\ [][Len(toVisit') >= Len(toVisit)
          /\ SubSeq(toVisit', 1, Len(toVisit)) = toVisit]_vars
    /\ [](result.returned /\ Cardinality(visited) >= config.maxPages =>
            \A i \in UnclaimedIndexes :
                toVisit[i].url \in Range(result.pagesAbandoned))

\* the run ended on the page budget with entries left in the frontier
C12_Witness ==
    /\ result.returned /\ ~result.partial
    /\ Cardinality(visited) >= config.maxPages
    /\ queueIndex < Len(toVisit)

\* C13: the abandoned list of the result is exactly the list of the URLs of
\* the frontier entries unclaimed when the last worker exited (nothing is
\* claimed or enqueued after that), however the run ended; a run that ended
\* neither by cancellation nor on the budget has an empty abandoned list.
C13_AbandonedIsUnclaimed ==
    /\ [][(\A w \in Workers : pc[w] = "exited") =>
              toVisit' = toVisit /\ queueIndex' = queueIndex]_vars
    /\ [](result.returned => result.pagesAbandoned = Unclaimed)
    /\ [](result.returned /\ ~result.partial
            /\ Cardinality(visited) < config.maxPages =>
                result.pagesAbandoned = <<>>)

\* a cancelled run below the budget returned with entries abandoned
C13_Witness ==
    /\ result.returned /\ result.partial
    /\ Cardinality(visited) < config.maxPages
    /\ result.pagesAbandoned # <<>>

C16_SameOrigin ==
    /\ \A i \in 1..Len(toVisit) : Origin(toVisit[i].url) = baseOrigin
    /\ \A u \in pending \cup visited \cup failed : Origin(u) = baseOrigin
    /\ result.returned =>
          \A u \in result.pagesScanned \cup result.pagesFailed
                    \cup Range(result.pagesAbandoned) : Origin(u) = baseOrigin
    /\ \A r \in LinkResults : \A l \in Range(r.links) : Origin(l) = baseOrigin

\* the seed page, whose anchors may be a link to another origin and a link
\* to /a, has had its links enqueued, and the run went on to its end
C16_Witness ==
    /\ result.returned
    /\ ExtractLinks(<<UrlExternal, UrlA>>, config.maxLinksPerPage) \in LinkResults
    /\ Len(toVisit) >= 2
    /\ toVisit[2] = Entry(UrlA, 1, 0)

\* the navigation of worker w's current URL was redirected, directly or
\* through other hops, to another origin: a redirect chain that starts at
\* the URL was recorded and the request leaving the origin was aborted
RedirectedAway(w) ==
    /\ pc[w] = "goto" /\ aborted[w]
    /\ \E r \in redirectedExternal : r.chain[1] = CurrentUrl(w)

\* C17: when the navigation of a claimed URL u ends at another origin,
\* directly or after intermediate redirects, the worker ends the entry with
\* u in visited and not in failed, without a retry, with exactly one
\* redirect record from u, without invoking the page-visit hook or counting
\* a scanned page, and without enqueuing anything.
C17_ExternalRedirectVisited ==
    [][\A w \in Workers :
          RedirectedAway(w) /\ (pc'[w] # "goto" \/ cur'[w] # cur[w]) =>
              LET u == CurrentUrl(w)
              IN  /\ u \in visited'
                  /\ u \notin failed'
                  /\ toVisit' = toVisit
                  /\ Cardinality({r \in redirectedExternal' : r.from = u}) = 1
                  /\ hookCalls'[u] = hookCalls[u]
                  /\ crawlStats'.pagesScanned = crawlStats.pagesScanned
      ]_vars

\* C18: on a request that the core does not abort, the core calls continue
\* exactly once when the hook is absent or returns a falsy value, and calls
\* neither continue nor abort when the hook returns a truthy value; no
\* request is both aborted and continued by the core.
C18_ContinueOnce ==
    intercepted.seen =>
        /\ intercepted.aborts = 0 /\ intercepted.hook # "truthy" =>
                intercepted.continues = 1
        /\ intercepted.aborts = 0 /\ intercepted.hook = "truthy" =>
                intercepted.continues = 0
        /\ intercepted.aborts + intercepted.continues <= 1

\* a request was left to a hook that returned a truthy value
C18_Witness ==
    /\ intercepted.seen
    /\ intercepted.hook = "truthy"
    /\ intercepted.aborts = 0

\* C19: when a request hook is supplied it is invoked for every request of
\* a worker page, the requests that the core aborts included.
C19_HookSeesEveryRequest ==
    intercepted.seen /\ intercepted.hook # "absent" => intercepted.hookCalls = 1

\* C20: a request for a sub-resource (not a document) on another origin is
\* aborted by the core, unless the hook returns a truthy value for it, and
\* then the core neither aborts nor continues it.
C20_ExternalSubresourceBlocked ==
    intercepted.seen
    /\ intercepted.request.resourceType # "document"
    /\ Parses(intercepted.request.url)
    /\ Origin(intercepted.request.url) # baseOrigin =>
        IF intercepted.hook = "truthy"
        THEN intercepted.aborts = 0 /\ intercepted.continues = 0
        ELSE intercepted.aborts = 1

\* C21: with a pacing delay configured, a worker starts the fetch of a newly
\* claimed entry only at its start, after the pacing wait or after an idle
\* poll that followed it, never straight from the entry it has just
\* processed.
C21_PacedBetweenFetches ==
    [][config.delay > 0 =>
          \A w \in Workers :
              cur'[w] # 0 /\ cur'[w] # cur[w] =>
                  pc[w] \in {"unstarted", "delay", "sleep"}
      ]_vars

\* C22: normalizeUrl is idempotent: applied to what it returned for a valid
\* absolute URL, it returns the same string again.
C22_Idempotent ==
    [][normalized.called /\ Parses(normalized.input)
       /\ normalized'.again /\ normalized'.input = normalized.output =>
           normalized'.output = normalized.output
      ]_vars

\* the number of occurrences of the pair p in the query q
Count(q, p) == Cardinality({i \in 1..Len(q) : q[i] = p})

\* u and v differ at most in tracking parameters, in the order of their
\* query parameters, in one trailing slash of the path and in the fragment
SameButForNoise(u, v) ==
    /\ u.scheme = v.scheme /\ u.host = v.host
    /\ \/ u.path = v.path
       \/ u.path = Append(v.path, "")
       \/ v.path = Append(u.path, "")
    /\ \A p \in QueryPairs :
          p[1] \notin trackingParams => Count(u.query, p) = Count(v.query, p)

\* C23: two valid URLs that differ only in tracking parameters, in a
\* trailing slash on a path longer than one character, in the fragment or
\* in the order of their query parameters (repeated keys included)
\* normalize to the same string: so do the arguments of two calls in a row.
C23_NoiseInsensitive ==
    [][normalized.called /\ normalized'.called
       /\ Parses(normalized.input) /\ Parses(normalized'.input)
       /\ SameButForNoise(normalized.input, normalized'.input) =>
           normalized'.output = normalized.output
      ]_vars

\* C24: normalizeUrl returns a URL string for every input, and for an input
\* that does not parse as a URL it returns the input unchanged.
C24_Total ==
    normalized.called =>
        /\ DOMAIN normalized.output = {"scheme", "host", "path", "query", "hash"}
        /\ ~Parses(normalized.input) => normalized.output = normalized.input

\* normalizeUrl was called on "a/#h", which is not an absolute URL
C24_Witness ==
    /\ normalized.called
    /\ ~Parses(normalized.input)
    /\ normalized.input.hash # ""

\* C25: when baseUrl is not an absolute URL with scheme http or https, the
\* run ends before a browser is launched, a worker page is created or a
\* fetch is made.
C25_BadSeedRejected ==
    ~(Parses(config.baseUrl) /\ config.baseUrl.scheme \in {"http", "https"}) =>
        /\ phase \in {"called", "exited", "rejected"}
        /\ \A w \in Workers : pc[w] = "unstarted"

\* the settings of the engine and the kebab-case spelling of their options
Settings ==
    {"baseUrl", "maxPages", "maxLinksPerPage", "maxDepth", "concurrency",
     "maxRetries"}

Kebab ==
    [baseUrl |-> "base-url", maxPages |-> "max-pages",
     maxLinksPerPage |-> "max-links-per-page", maxDepth |-> "max-depth",
     concurrency |-> "concurrency", maxRetries |-> "max-retries"]

\* the value the command line of the script gives for setting s
GivenOnCli(s) ==
    Or(Get(parseArgs(process.argv), s), Get(parseArgs(process.argv), Kebab[s]))

\* C26: for every setting, a value given on the command line of the script
\* is the value the crawl engine runs with.
C26_CommandLineWins ==
    phase = "configured" =>
        \A s \in Settings :
            GivenOnCli(s) # Undefined =>
                config[s] = IF s = "baseUrl"
                            THEN GivenOnCli(s)
                            ELSE parseInt(GivenOnCli(s))

\* worker w, in flight, runs the catch block in this step
Fails(w) ==
    /\ InFlight(w)
    /\ gotoFails' # gotoFails
    /\ cur'[w] # cur[w]

\* C27: a failure while worker w processes URL u leaves every other worker
\* where it is, with the entry and page URL it has, and changes the
\* membership in visited and failed of no URL other than u.
C27_FailureIsLocal ==
    [][\A w \in Workers :
          Fails(w) =>
              /\ \A v \in Workers \ {w} :
                     /\ pc'[v] = pc[v]
                     /\ cur'[v] = cur[v]
                     /\ currentPageUrl'[v] = currentPageUrl[v]
              /\ \A x \in CrawlUrls \ {CurrentUrl(w)} :
                     /\ x \in visited' <=> x \in visited
                     /\ x \in failed' <=> x \in failed
      ]_vars

\* one URL has failed for good while another worker is past the hook on a
\* URL that has not failed
C27_Witness ==
    /\ failed # {}
    /\ crawlStats.errors # <<>>
    /\ \E v \in Workers :
           /\ pc[v] = "evaluate"
           /\ CurrentUrl(v) \notin failed
           /\ \E w \in Workers \ {v} : pc[w] # "unstarted"

\* C28: the result is assembled only once every worker has left its loop
\* and the browser is closed; from the closing of the browser on, visited,
\* failed, the frontier, the redirect records and the counters do not
\* change, and the result holds their final values.
C28_ResultIsFinal ==
    [][/\ result'.returned /\ ~result.returned =>
              /\ phase = "closing"
              /\ \A w \in Workers : pc[w] = "exited"
       /\ phase \in {"closing", "returned"} =>
              /\ UNCHANGED <<visited, failed, toVisit, queueIndex,
                             redirectedExternal, crawlStats>>
              /\ result'.returned =>
                     /\ result'.pagesScanned = visited
                     /\ result'.pagesFailed = failed
                     /\ result'.pagesRedirectedExternal = redirectedExternal
                     /\ result'.crawlStats = crawlStats
      ]_vars

\* two workers have crawled and failed pages, and the result is returned
C28_Witness ==
    /\ result.returned
    /\ config.concurrency = 2
    /\ Cardinality(visited) >= 2
    /\ failed # {}

Appended == {toVisit'[i] : i \in (Len(toVisit) + 1)..Len(toVisit')}

\* C30: within a worker the order is claim, fetch, hook, link extraction,
\* enqueue: a fetch starts on an entry claimed in the same run; the hook
\* starts only when the fetch of the same entry has resolved, with the URL
\* in visited; the link extraction starts only when the hook of the same
\* entry has returned; links are appended only by a worker whose link
\* extraction returns, one level below its entry.
C30_StepOrder ==
    [][/\ \A w \in Workers :
              /\ pc'[w] = "goto" /\ cur'[w] # cur[w] =>
                     /\ cur'[w] \in (queueIndex + 1)..queueIndex'
                     /\ gotoCalls'[toVisit'[cur'[w]].url]
                            = gotoCalls[toVisit'[cur'[w]].url] + 1
              /\ pc'[w] = "onPageVisit" /\ pc[w] # "onPageVisit" =>
                     /\ pc[w] = "goto"
                     /\ cur'[w] = cur[w]
                     /\ CurrentUrl(w) \in visited'
                     /\ hookCalls'[CurrentUrl(w)] = hookCalls[CurrentUrl(w)] + 1
              /\ pc'[w] = "evaluate" /\ pc[w] # "evaluate" =>
                     /\ pc[w] = "onPageVisit"
                     /\ cur'[w] = cur[w]
                     /\ toVisit' = toVisit
       /\ (\E e \in Appended : e.retries = 0) =>
              \E w \in Workers :
                  /\ pc[w] = "evaluate"
                  /\ cur'[w] # cur[w]
                  /\ CurrentUrl(w) \in visited
                  /\ \A e \in Appended :
                         e.depth = toVisit[cur[w]].depth + 1 /\ e.retries = 0
      ]_vars

\* a worker is in the hook of a page that the link extraction of the seed
\* has enqueued
C30_Witness ==
    \E w \in Workers :
        /\ pc[w] = "onPageVisit"
        /\ toVisit[cur[w]].depth = 1
        /\ toVisit[cur[w]].retries = 0
        /\ hookCalls[normalizeUrl(baseUrl)] = 1

\* worker w leaves its loop in this step though neither the shutdown flag
\* nor the page budget stops it: the exit of line 543
ExitsForEmptiness(w) ==
    /\ pc[w] # "exited"
    /\ pc'[w] = "exited"
    /\ ~shuttingDown
    /\ Cardinality(visited') < config.maxPages

\* C31: activeWorkers is the number of workers between a claim and the end
\* of its processing, between 0 and the concurrency, and 0 once the result
\* is assembled; a worker exits for emptiness only with activeWorkers = 0,
\* every entry claimed and no worker in that section.
C31_ExitOnlyWhenIdle ==
    /\ [](/\ activeWorkers = Cardinality({w \in Workers : InFlight(w)})
          /\ activeWorkers \in 0..config.concurrency
          /\ result.returned => activeWorkers = 0)
    /\ [][\A w \in Workers :
              ExitsForEmptiness(w) =>
                  /\ activeWorkers' = 0
                  /\ queueIndex' >= Len(toVisit')
                  /\ \A v \in Workers : pc'[v] \notin {"goto", "onPageVisit", "evaluate"}
         ]_vars

\* with two workers and links discovered, a worker has left for emptiness:
\* no signal, budget not reached, every entry claimed
C31_Witness ==
    /\ config.concurrency = 2
    /\ Len(toVisit) > 1
    /\ \E w \in Workers : pc[w] = "exited"
    /\ ~shuttingDown
    /\ Cardinality(visited) < config.maxPages
    /\ queueIndex = Len(toVisit)
    /\ activeWorkers = 0

\* C32: under fair scheduling every run over the finite site ends: all
\* workers exit and the result is returned, unless a second SIGINT has
\* ended the process.
C32_Terminates ==
    <>(\/ phase = "killed"
       \/ result.returned /\ \A w \in Workers : pc[w] = "exited")

\* a run of two workers with a retry, a terminal failure and an interrupt
\* has returned its result
C32_Witness ==
    /\ result.returned
    /\ config.concurrency = 2
    /\ config.maxRetries > 0
    /\ failed # {}
    /\ visited # {}
    /\ shuttingDown

\* C33: no two redirect records have the same from URL, and the
\* redirectsExternal counter is the number of redirect records.
C33_RedirectsCounted ==
    /\ \A r1, r2 \in redirectedExternal : r1.from = r2.from => r1 = r2
    /\ crawlStats.redirectsExternal = Cardinality(redirectedExternal)

\* one record was made by the final-URL check (its chain is the final URL
\* alone) and one by the request listener (its chain has the hops)
C33_Witness ==
    \E r1, r2 \in redirectedExternal :
        /\ Len(r1.chain) = 1
        /\ Len(r2.chain) > 1
        /\ r1.from # r2.from

\* the link extraction of worker w returns in this step
Evaluated(w) ==
    /\ pc[w] = "evaluate"
    /\ cur'[w] # cur[w]
    /\ gotoFails' = gotoFails

\* C34: when the page of worker w has more unique eligible links than
\* maxLinksPerPage, linksFound grows by maxLinksPerPage, every appended
\* entry is one of the first maxLinksPerPage links, linksTruncated grows by
\* the number of links beyond them, and the page stays visited: nothing is
\* added to failed or to the error records and no retry is queued.
C34_TruncationCounted ==
    [][\A w \in Workers :
          Evaluated(w) =>
              LET uniqueLinks == Unique(AllLinks(Site(CurrentUrl(w))))
                  n == Len(uniqueLinks)
                  m == config.maxLinksPerPage
              IN  n > m =>
                      /\ crawlStats'.linksFound = crawlStats.linksFound + m
                      /\ crawlStats'.linksTruncated = crawlStats.linksTruncated + (n - m)
                      /\ Len(toVisit') - Len(toVisit) <= m
                      /\ \A e \in Appended :
                             /\ e.retries = 0
                             /\ \E i \in 1..m : e.url = normalizeUrl(uniqueLinks[i])
                      /\ CurrentUrl(w) \in visited'
                      /\ failed' = failed
                      /\ crawlStats'.errors = crawlStats.errors
      ]_vars

\* the seed page, with two links under a cap of one, was truncated and is
\* visited
C34_Witness ==
    /\ config.maxLinksPerPage = 1
    /\ crawlStats.linksTruncated = 1
    /\ crawlStats.linksFound = 1
    /\ normalizeUrl(baseUrl) \in visited
    /\ failed = {}

\* the visited URLs without a redirect record
ScannedUrls == {u \in visited : ~HasRedirect(redirectedExternal, u)}

\* C35: pagesScanned is the number of visited URLs that were not recorded
\* as external redirects, and so never exceeds the size of visited.
C35_PagesScannedIsVisited ==
    /\ crawlStats.pagesScanned = Cardinality(ScannedUrls)
    /\ crawlStats.pagesScanned <= Cardinality(visited)

\* C36: the error records hold exactly one record for each URL in failed
\* and none for any other URL.
C36_OneErrorPerFailed ==
    /\ ErrorUrls = failed
    /\ Len(crawlStats.errors) = Cardinality(failed)

\* C37: in the result the abandoned list holds no URL of the visited list
\* or of the failed list, and no URL twice.
C37_AbandonedDisjoint ==
    result.returned =>
        /\ Range(result.pagesAbandoned) \cap result.pagesScanned = {}
        /\ Range(result.pagesAbandoned) \cap result.pagesFailed = {}
        /\ Cardinality(Range(result.pagesAbandoned)) = Len(result.pagesAbandoned)

\* the frontier entries appended by link discovery: depth above 0 and no
\* retry
Discovered(tv) == {i \in DOMAIN tv : tv[i].retries = 0 /\ tv[i].depth > 0}

\* C38: newLinksFound is the number of frontier entries appended by link
\* discovery, newLinksFound <= linksFound, and no counter ever decreases.
C38_CountersGrow ==
    /\ [](/\ crawlStats.newLinksFound = Cardinality(Discovered(toVisit))
          /\ crawlStats.newLinksFound <= crawlStats.linksFound)
    /\ [][/\ crawlStats'.pagesScanned >= crawlStats.pagesScanned
          /\ crawlStats'.linksFound >= crawlStats.linksFound
          /\ crawlStats'.newLinksFound >= crawlStats.newLinksFound
          /\ crawlStats'.linksTruncated >= crawlStats.linksTruncated
          /\ crawlStats'.redirectsExternal >= crawlStats.redirectsExternal
          /\ Len(crawlStats'.errors) >= Len(crawlStats.errors)
          /\ SubSeq(crawlStats'.errors, 1, Len(crawlStats.errors)) = crawlStats.errors
         ]_vars

\* links were found of which some were new and some were not, on more than
\* one page, and a retry entry is in the frontier
C38_Witness ==
    /\ crawlStats.newLinksFound > 0
    /\ crawlStats.newLinksFound < crawlStats.linksFound
    /\ crawlStats.pagesScanned > 1
    /\ \E i \in DOMAIN toVisit : toVisit[i].retries > 0

\* C39: the page URL passed to the console-message hook by worker w's page
\* is the URL of the entry w last claimed for fetching, and the empty
\* string before w's first such claim: a page's currentPageUrl starts
\* empty, is the URL of the entry its worker holds, changes only when its
\* own worker claims an entry for fetching, and is what the hook receives.
C39_OwnPageUrl ==
    /\ [](\A w \in Workers :
              /\ pc[w] = "unstarted" => currentPageUrl[w] = NoUrl
              /\ cur[w] # 0 => currentPageUrl[w] = toVisit[cur[w]].url)
    /\ [][/\ \A w \in Workers :
                 currentPageUrl'[w] # currentPageUrl[w] =>
                     /\ pc'[w] = "goto"
                     /\ cur'[w] # cur[w]
                     /\ currentPageUrl'[w] = toVisit'[cur'[w]].url
          /\ consoleMessage' # consoleMessage =>
                 LET w == consoleMessage'.worker
                 IN  /\ cur[w] # 0 => consoleMessage'.pageUrl = toVisit[cur[w]].url
                     /\ cur[w] = 0 => consoleMessage'.pageUrl = currentPageUrl[w]
                     /\ (\A u \in CrawlUrls : gotoCalls[u] = 0) =>
                            consoleMessage'.pageUrl = NoUrl
         ]_vars

\* the hook was called for a page fetching one URL while the other worker
\* fetches another
C39_Witness ==
    /\ consoleMessage.called
    /\ \E w, v \in Workers :
           /\ w = consoleMessage.worker
           /\ v # w
           /\ InFlight(w) /\ InFlight(v)
           /\ CurrentUrl(w) # CurrentUrl(v)
           /\ consoleMessage.pageUrl = CurrentUrl(w)

====
